---- MODULE Spec2Model ----
(***************************************************************************)
(* Convolutional RBM layer of dll: standard_crbm (activation of the hidden *)
(* and visible units, energy and free energy) over a scaled-down layer.    *)
(* Real numbers (the layer's `weight` type) are fixed-point integers in    *)
(* units of 1/One; NaN stands for any non-finite value.                    *)
(***************************************************************************)
EXTENDS Integers, Sequences, FiniteSets, TLC

\* ---------------------------------------------------------------- layer
\* The layer's template dimensions (conv_rbm_desc_square<NC, NV, K, NW>),
\* scaled down: NC channels, K kernels, NV1 x NV2 visible maps, NW1 x NW2
\* kernels, NH1 x NH2 hidden maps.
NC == 1
K == 1
NV1 == 3
NV2 == 1
NW1 == 2
NW2 == 1
NH1 == NV1 - NW1 + 1
NH2 == NV2 - NW2 + 1
\* Samples in a batch (batch_size<B>), scaled down.
BatchSize == 2

\* Resolution of the fixed-point `weight` type: One stands for 1.0.
One == 1000
\* A non-finite value (NaN or Inf) of the `weight` type.
NaN == -999999999

\* ---------------------------------------------------------------- bounds
\* The random engine's states a call may start from.
MaxSeed == 2
\* Noise added by the sampling laws is a whole number -MaxNoise..MaxNoise.
MaxNoise == 1

\* The unit kinds named by the layer's code.
UnitTypes == {"BINARY", "GAUSSIAN", "RELU", "RELU6", "RELU1"}

is_relu(t) == t \in {"RELU", "RELU6", "RELU1"}

\* ------------------------------------------------------------ arithmetic
IsFinite(x) == x # NaN

Add(x, y) == IF x = NaN \/ y = NaN THEN NaN ELSE x + y

Sub(x, y) == IF x = NaN \/ y = NaN THEN NaN ELSE x - y

Neg(x) == IF x = NaN THEN NaN ELSE 0 - x

\* Fixed-point product.
Mul(x, y) == IF x = NaN \/ y = NaN THEN NaN ELSE (x * y) \div One

\* x / 2.0
Half(x) == IF x = NaN THEN NaN ELSE x \div 2

\* std::max(x, y) == (x < y) ? y : x, every comparison with NaN being false.
Max(x, y) == IF x # NaN /\ y # NaN /\ x < y THEN y ELSE x

\* std::min(x, y) == (y < x) ? y : x
Min(x, y) == IF x # NaN /\ y # NaN /\ y < x THEN y ELSE x

\* 1 / (1 + exp(-x)), tabulated at the whole part of x and rounded to 1/One.
\* In double precision the result is exactly 1 from x >= 37 on and exactly 0
\* only once exp(-x) overflows (x <= -710).
SigmoidTable == <<2, 7, 18, 47, 119, 269, 500, 731, 881, 953, 982, 993, 998>>

Sigmoid(x) ==
    IF x = NaN THEN NaN
    ELSE LET n == x \div One
         IN  IF n >= 37 THEN One
             ELSE IF n >= 7 THEN One - 1
             ELSE IF n >= -6 THEN SigmoidTable[n + 7]
             ELSE IF n >= -709 THEN 1
             ELSE 0

\* log(1 + exp(x)), tabulated at the whole part of x and rounded to 1/One.
SoftplusTable == <<2, 7, 18, 49, 127, 313, 693, 1313, 2127, 3049, 4018, 5007, 6002>>

Softplus(x) ==
    IF x = NaN THEN NaN
    ELSE LET n == x \div One
         IN  IF n >= 8 THEN x
             ELSE IF n = 7 THEN x + 1
             ELSE IF n >= -6 THEN SoftplusTable[n + 7]
             ELSE IF n >= -36 THEN 1
             ELSE 0

\* Sum of f[1..n].
RECURSIVE SumTo(_, _)
SumTo(f, n) == IF n = 0 THEN 0 ELSE Add(SumTo(f, n - 1), f[n])

\* ---------------------------------------------------------------- tensors
\* A batch of visible samples t[s][ch][i][j] and of hidden samples
\* t[s][k][i][j]; a single sample is a batch of one (reshape_v_a, reshape_h_a).
VisibleSample(S) == [1..NC -> [1..NV1 -> [1..NV2 -> S]]]

HiddenSample(S) == [1..K -> [1..NH1 -> [1..NH2 -> S]]]

ZeroVisible(n) == [s \in 1..n |-> [ch \in 1..NC |-> [i \in 1..NV1 |-> [j \in 1..NV2 |-> 0]]]]

ZeroHidden(n) == [s \in 1..n |-> [k \in 1..K |-> [i \in 1..NH1 |-> [j \in 1..NH2 |-> 0]]]]

\* Position of an element in its tensor, in storage order.
HIdx(s, k, i, j) == (((s - 1) * K + (k - 1)) * NH1 + (i - 1)) * NH2 + j

VIdx(s, ch, i, j) == (((s - 1) * NC + (ch - 1)) * NV1 + (i - 1)) * NV2 + j

\* Elementwise f(x, position) over a batch of hidden or of visible samples.
MapHidden(f(_, _), t) ==
    [s \in DOMAIN t |-> [k \in 1..K |-> [i \in 1..NH1 |-> [j \in 1..NH2 |->
        f(t[s][k][i][j], HIdx(s, k, i, j))]]]]

MapVisible(f(_, _), t) ==
    [s \in DOMAIN t |-> [ch \in 1..NC |-> [i \in 1..NV1 |-> [j \in 1..NV2 |->
        f(t[s][ch][i][j], VIdx(s, ch, i, j))]]]]

\* etl::sum of one sample.
SumVisible(v) == SumTo([ch \in 1..NC |-> SumTo([i \in 1..NV1 |-> SumTo(v[ch][i], NV2)], NV1)], NC)

SumHidden(h) == SumTo([k \in 1..K |-> SumTo([i \in 1..NH1 |-> SumTo(h[k][i], NH2)], NH1)], K)

\* nan_check_deep: TRUE when some element of the tensor is not finite, which
\* is fatal to the call.
nan_check_deep(t) ==
    \E s \in DOMAIN t : \E a \in DOMAIN t[s] : \E i \in DOMAIN t[s][a] :
        \E j \in DOMAIN t[s][a][i] : ~IsFinite(t[s][a][i][j])

\* etl::sum_r: the sum of each map of a sample.
SumRVisible(v) ==
    [ch \in 1..NC |-> SumTo([i \in 1..NV1 |-> SumTo(v[ch][i], NV2)], NV1)]

SumRHidden(h) ==
    [k \in 1..K |-> SumTo([i \in 1..NH1 |-> SumTo(h[k][i], NH2)], NH1)]

\* etl::conv_4d_valid_flipped: each kernel slides over the visible maps, the
\* kernels being stored flipped (a cross-correlation), summed over channels.
conv_4d_valid_flipped(v, W) ==
    [s \in DOMAIN v |-> [k \in 1..K |-> [i \in 1..NH1 |-> [j \in 1..NH2 |->
        SumTo([ch \in 1..NC |->
            SumTo([m \in 1..NW1 |->
                SumTo([n \in 1..NW2 |->
                    Mul(v[s][ch][i + m - 1][j + n - 1], W[k][ch][m][n])], NW2)], NW1)], NC)]]]]

\* etl::conv_4d_full: the full convolution of the hidden maps with the
\* kernels, summed over kernels.
conv_4d_full(h, W) ==
    [s \in DOMAIN h |-> [ch \in 1..NC |-> [i \in 1..NV1 |-> [j \in 1..NV2 |->
        SumTo([k \in 1..K |->
            SumTo([m \in 1..NW1 |->
                SumTo([n \in 1..NW2 |->
                    IF /\ i - m + 1 \in 1..NH1
                       /\ j - n + 1 \in 1..NH2
                    THEN Mul(h[s][k][i - m + 1][j - n + 1], W[k][ch][m][n])
                    ELSE 0], NW2)], NW1)], K)]]]]

\* ----------------------------------------------------------------- noise
Seeds == 0..MaxSeed

\* The uniform draw in [0, 1) that the engine, started at seed, gives element idx.
UniformLevels == <<0, One \div 2, One - 1>>

Uniform(seed, idx) == UniformLevels[((seed + idx) % 3) + 1]

\* The zero-mean noise that the engine, started at seed, gives element idx.
Noise(seed, idx) == (((seed + idx) % (2 * MaxNoise + 1)) - MaxNoise) * One

\* etl::bernoulli: 1 when the probability exceeds a uniform draw, else 0.
bernoulli(p, u) == IF p # NaN /\ p > u THEN One ELSE 0

\* etl::logistic_noise: x plus zero-mean noise.
logistic_noise(x, n) == Add(x, n)

\* etl::ranged_noise: x plus zero-mean noise, except at the ends of the range.
ranged_noise(x, range, n) == IF x = 0 \/ x = range THEN x ELSE Add(x, n)

\* etl::normal_noise: x plus zero-mean noise.
normal_noise(x, n) == Add(x, n)

\* ----------------------------------------------------------------- state
VARIABLES
    visible_unit,   \* desc::visible_unit
    hidden_unit,    \* desc::hidden_unit
    w,              \* kernels w[k][ch][m][n]
    b,              \* hidden biases b[k]
    c,              \* visible biases c[ch]
    bak,            \* backup snapshot <<[w, b, c]>>, or <<>> (a null pointer)
    v1,             \* visible input of the call
    h1_a,           \* hidden activation probabilities
    h1_s,           \* hidden samples
    v2_a,           \* visible activation probabilities
    v2_s,           \* visible samples
    energy,         \* [value, path] of the last energy or free energy, or "none"
    call,           \* the last request: [op, P, S, draw]
    pc,             \* where the caller stands
    dyn,            \* a dyn_rbm object: its dimensions, tensors and backup
    trainer         \* a training session over the layer: phase, queue, workers

vars == <<visible_unit, hidden_unit, w, b, c, bak, v1, h1_a, h1_s, v2_a, v2_s, energy, call, pc,
          dyn, trainer>>

\* What a call on the layer leaves alone: the dyn_rbm object and the trainer.
others == <<dyn, trainer>>

params == <<visible_unit, hidden_unit, w, b, c>>

\* The weights and biases of the layers checked.
WeightVals == {0 - One, One}

\* The values of the units handed to the layer.
InputVals == {0, One}

\* The visible kinds of the layers checked: the two the code supports and one
\* it does not.
VisibleKinds == {"BINARY", "GAUSSIAN", "RELU"}

\* The samples batches are made of.
VisibleDataset ==
    { [ch \in 1..NC |-> [i \in 1..NV1 |-> [j \in 1..NV2 |-> 0]]],
      [ch \in 1..NC |-> [i \in 1..NV1 |-> [j \in 1..NV2 |-> One]]],
      [ch \in 1..NC |-> [i \in 1..NV1 |-> [j \in 1..NV2 |-> IF i = 1 THEN One ELSE 0]]] }

HiddenDataset ==
    { [k \in 1..K |-> [i \in 1..NH1 |-> [j \in 1..NH2 |-> 0]]],
      [k \in 1..K |-> [i \in 1..NH1 |-> [j \in 1..NH2 |-> One]]],
      [k \in 1..K |-> [i \in 1..NH1 |-> [j \in 1..NH2 |-> IF i = 1 THEN One ELSE 0]]] }

NoCall == [op |-> "none", P |-> TRUE, S |-> TRUE, draw |-> -1]

NoEnergy == [value |-> 0, path |-> "none"]

\* etl::dyn_matrix<weight>(rows, cols) holding data, row by row.
dyn_matrix(rows, cols, data) == [rows |-> rows, cols |-> cols, data |-> data]

\* etl::dyn_vector<weight>(n), value-initialised.
dyn_vector(n) == [i \in 1..n |-> 0]

\* No dyn_rbm object yet: every member as its default member initialiser or
\* default constructor leaves it (empty tensors, null backup pointers).
NoDyn ==
    [made |-> "no", num_visible |-> 0, num_hidden |-> 0, batch_size |-> 25,
     w |-> dyn_matrix(0, 0, <<>>), b |-> <<>>, c |-> <<>>,
     bak_w |-> <<>>, bak_b |-> <<>>, bak_c |-> <<>>,
     v1 |-> <<>>, h1_a |-> <<>>, h1_s |-> <<>>, v2_a |-> <<>>, v2_s |-> <<>>,
     h2_a |-> <<>>, h2_s |-> <<>>]

\* No training session.
NoTrainer == [phase |-> "none"]

\* A constructed layer of any unit kinds whose parameters hold any weights;
\* a diverged training leaves non-finite weights.
Init ==
    /\ visible_unit \in VisibleKinds
    /\ hidden_unit \in UnitTypes
    /\ w \in [1..K -> [1..NC -> [1..NW1 -> [1..NW2 -> WeightVals \cup {NaN}]]]]
    /\ b \in [1..K -> WeightVals]
    /\ c \in [1..NC -> WeightVals]
    /\ bak \in {<<>>, <<[w |-> w, b |-> b, c |-> c]>>}
    /\ v1 = ZeroVisible(1)
    /\ h1_a = ZeroHidden(1)
    /\ h1_s = ZeroHidden(1)
    /\ v2_a = ZeroVisible(1)
    /\ v2_s = ZeroVisible(1)
    /\ energy = NoEnergy
    /\ call = NoCall
    /\ pc = "constructed"
    /\ dyn = NoDyn
    /\ trainer = NoTrainer

\* ------------------------------------------------------------- the caller
\* The caller hands a visible sample (n = 1) or a batch of them to the layer,
\* with output buffers of the same batch size.
LoadVisible(n, v) ==
    /\ pc = "constructed"
    /\ v1' = v
    /\ h1_a' = ZeroHidden(n)
    /\ h1_s' = ZeroHidden(n)
    /\ v2_a' = ZeroVisible(n)
    /\ v2_s' = ZeroVisible(n)
    /\ pc' = "visible_set"
    /\ UNCHANGED <<others, params, bak, energy, call>>

\* The caller hands a hidden state or a batch of them to the layer.
LoadHidden(n, h) ==
    /\ pc = "constructed"
    /\ h1_a' = h
    /\ h1_s' = h
    /\ v1' = ZeroVisible(n)
    /\ v2_a' = ZeroVisible(n)
    /\ v2_s' = ZeroVisible(n)
    /\ pc' = "hidden_set"
    /\ UNCHANGED <<others, params, bak, energy, call>>

\* The caller hands a (visible, hidden) configuration to energy().
LoadPair(v, h) ==
    /\ pc = "constructed"
    /\ v1' = v
    /\ h1_a' = h
    /\ h1_s' = h
    /\ v2_a' = ZeroVisible(1)
    /\ v2_s' = ZeroVisible(1)
    /\ pc' = "pair_set"
    /\ UNCHANGED <<others, params, bak, energy, call>>

Batches(n, S) == [1..n -> S]

\* ------------------------------------------------------------ activation
\* 1.0 / (0.1 * 0.1): the precision of the Gaussian visible units.
GaussianPrecision == 100

\* static_assert on the hidden unit kind (activate_hidden, batch_activate_hidden).
hidden_unit_assert == hidden_unit = "BINARY" \/ is_relu(hidden_unit)

\* static_assert on the visible unit kind (activate_visible, batch_activate_visible).
visible_unit_assert == visible_unit = "BINARY" \/ visible_unit = "GAUSSIAN"

\* The static_assert on P left out.
probs_assert_missing(P) == TRUE

\* static_assert(P, "Computing S without P is not implemented")
probs_assert(P) == P

\* b_rep + h_a: each kernel's bias added over its whole map.
b_rep_plus(t) ==
    [s \in DOMAIN t |-> [k \in 1..K |-> [i \in 1..NH1 |-> [j \in 1..NH2 |->
        Add(b[k], t[s][k][i][j])]]]]

\* c_rep + v_a: each channel's bias added over its whole map.
c_rep_plus(t) ==
    [s \in DOMAIN t |-> [ch \in 1..NC |-> [i \in 1..NV1 |-> [j \in 1..NV2 |->
        Add(c[ch], t[s][ch][i][j])]]]]

\* H_SAMPLE_PROBS of the rectified kinds: the sample of one hidden unit from
\* its pre-activation x and the noise n.
relu_sample(x, n) ==
    CASE hidden_unit = "RELU"  -> Max(logistic_noise(x, n), 0)
      [] hidden_unit = "RELU6" -> Min(Max(ranged_noise(x, 6 * One, n), 0), 6 * One)
      [] hidden_unit = "RELU1" -> Min(Max(ranged_noise(x, One, n), 0), One)
      [] OTHER -> x

\* Whether one of the H_PROBS / H_PROBS2 lines is compiled in for the layer's kinds.
hidden_probs_compiled ==
    \/ hidden_unit = "BINARY" /\ visible_unit \in {"BINARY", "GAUSSIAN"}
    \/ is_relu(hidden_unit)

\* hidden_probs with the Gaussian line scaled like the binary one.
hidden_probs_unscaled(x) ==
    CASE hidden_unit = "BINARY" /\ visible_unit \in {"BINARY", "GAUSSIAN"} -> Sigmoid(x)
      [] hidden_unit = "RELU"  -> Max(x, 0)
      [] hidden_unit = "RELU6" -> Min(Max(x, 0), 6 * One)
      [] hidden_unit = "RELU1" -> Min(Max(x, 0), One)
      [] OTHER -> x

\* H_PROBS / H_PROBS2: the activation probability of one hidden unit from its
\* pre-activation x.
hidden_probs(x) ==
    CASE hidden_unit = "BINARY" /\ visible_unit = "BINARY" -> Sigmoid(x)
      [] hidden_unit = "BINARY" /\ visible_unit = "GAUSSIAN" ->
            Sigmoid(Mul(GaussianPrecision * One, x))
      [] hidden_unit = "RELU"  -> Max(x, 0)
      [] hidden_unit = "RELU6" -> Min(Max(x, 0), 6 * One)
      [] hidden_unit = "RELU1" -> Min(Max(x, 0), One)
      [] OTHER -> x

\* V_PROBS: the activation probability of one visible unit from c_rep + v_a.
visible_probs(x) ==
    CASE visible_unit = "BINARY" -> Sigmoid(x)
      [] visible_unit = "GAUSSIAN" -> x
      [] OTHER -> x

\* The buffers of a call, by name.
Buffers == [v1 |-> v1, h1_a |-> h1_a, h1_s |-> h1_s, v2_a |-> v2_a, v2_s |-> v2_s]

SetBuffers(m) ==
    /\ v1' = m.v1
    /\ h1_a' = m.h1_a
    /\ h1_s' = m.h1_s
    /\ v2_a' = m.v2_a
    /\ v2_s' = m.v2_s

\* activate_hidden keeping the bias it added to every map in the member b.
activate_hidden_keeping_b_rep(P, S, H1, H2, V1, mem, seed) ==
    LET m1 == [mem EXCEPT ![H1] = conv_4d_valid_flipped(mem[V1], w)]
        m2 == IF P /\ S /\ is_relu(hidden_unit)
              THEN [m1 EXCEPT ![H2] =
                       MapHidden(LAMBDA x, idx : relu_sample(x, Noise(seed, idx)),
                                 b_rep_plus(m1[H1]))]
              ELSE m1
        m3 == IF P /\ hidden_probs_compiled
              THEN [m2 EXCEPT ![H1] =
                       MapHidden(LAMBDA x, idx : hidden_probs(x), b_rep_plus(m2[H1]))]
              ELSE m2
        m4 == IF P /\ S /\ hidden_unit = "BINARY"
              THEN [m3 EXCEPT ![H2] =
                       MapHidden(LAMBDA p, idx : bernoulli(p, Uniform(seed, idx)), m3[H1])]
              ELSE m3
        m5 == [m4 EXCEPT !["b"] = [k \in 1..K |-> Mul(b[k], NH1 * NH2 * One)]]
    IN  [mem |-> m5, fatal |-> nan_check_deep(m5[H1]) \/ (S /\ nan_check_deep(m5[H2]))]

\* activate_hidden with the rectified samples drawn after the probabilities
\* were written, from h_a instead of the convolution output.
activate_hidden_sample_last(P, S, H1, H2, V1, mem, seed) ==
    LET m1 == [mem EXCEPT ![H1] = conv_4d_valid_flipped(mem[V1], w)]
        m2 == IF P /\ hidden_probs_compiled
              THEN [m1 EXCEPT ![H1] =
                       MapHidden(LAMBDA x, idx : hidden_probs(x), b_rep_plus(m1[H1]))]
              ELSE m1
        m3 == IF P /\ S /\ is_relu(hidden_unit)
              THEN [m2 EXCEPT ![H2] =
                       MapHidden(LAMBDA x, idx : relu_sample(x, Noise(seed, idx)),
                                 b_rep_plus(m2[H1]))]
              ELSE m2
        m4 == IF P /\ S /\ hidden_unit = "BINARY"
              THEN [m3 EXCEPT ![H2] =
                       MapHidden(LAMBDA p, idx : bernoulli(p, Uniform(seed, idx)), m3[H1])]
              ELSE m3
    IN  [mem |-> m4, fatal |-> nan_check_deep(m4[H1]) \/ (S /\ nan_check_deep(m4[H2]))]

\* activate_hidden<P, S>(h_a, h_s, v_a, v_s) on the buffers named H1, H2, V1
\* (H1 and H2 may name the same buffer), the random engine started at seed:
\* the buffers when the call ends and whether a NaN check ended it.
activate_hidden(P, S, H1, H2, V1, mem, seed) ==
    LET m1 == [mem EXCEPT ![H1] = conv_4d_valid_flipped(mem[V1], w)]
        m2 == IF P /\ S /\ is_relu(hidden_unit)
              THEN [m1 EXCEPT ![H2] =
                       MapHidden(LAMBDA x, idx : relu_sample(x, Noise(seed, idx)),
                                 b_rep_plus(m1[H1]))]
              ELSE m1
        m3 == IF P /\ hidden_probs_compiled
              THEN [m2 EXCEPT ![H1] =
                       MapHidden(LAMBDA x, idx : hidden_probs(x), b_rep_plus(m2[H1]))]
              ELSE m2
        m4 == IF P /\ S /\ hidden_unit = "BINARY"
              THEN [m3 EXCEPT ![H2] =
                       MapHidden(LAMBDA p, idx : bernoulli(p, Uniform(seed, idx)), m3[H1])]
              ELSE m3
    IN  [mem |-> m4, fatal |-> nan_check_deep(m4[H1]) \/ (S /\ nan_check_deep(m4[H2]))]

\* batch_activate_hidden with the probabilities computed without the bias.
batch_activate_hidden_no_bias(P, S, H1, H2, V1, mem, seed) ==
    LET m1 == [mem EXCEPT ![H1] = conv_4d_valid_flipped(mem[V1], w)]
        m2 == IF P /\ S /\ is_relu(hidden_unit)
              THEN [m1 EXCEPT ![H2] =
                       MapHidden(LAMBDA x, idx : relu_sample(x, Noise(seed, idx)),
                                 b_rep_plus(m1[H1]))]
              ELSE m1
        m3 == IF P /\ hidden_probs_compiled
              THEN [m2 EXCEPT ![H1] =
                       MapHidden(LAMBDA x, idx : hidden_probs(x), m2[H1])]
              ELSE m2
        fatal_a == nan_check_deep(m3[H1])
        m4 == IF ~fatal_a /\ P /\ S /\ hidden_unit = "BINARY"
              THEN [m3 EXCEPT ![H2] =
                       MapHidden(LAMBDA p, idx : bernoulli(p, Uniform(seed, idx)), m3[H1])]
              ELSE m3
    IN  [mem |-> m4, fatal |-> fatal_a \/ (S /\ nan_check_deep(m4[H2]))]

\* batch_activate_hidden<P, S>(h_a, h_s, v_a, v_s): as activate_hidden over a
\* batch, h_a being checked before the binary sample is drawn.
batch_activate_hidden(P, S, H1, H2, V1, mem, seed) ==
    LET m1 == [mem EXCEPT ![H1] = conv_4d_valid_flipped(mem[V1], w)]
        m2 == IF P /\ S /\ is_relu(hidden_unit)
              THEN [m1 EXCEPT ![H2] =
                       MapHidden(LAMBDA x, idx : relu_sample(x, Noise(seed, idx)),
                                 b_rep_plus(m1[H1]))]
              ELSE m1
        m3 == IF P /\ hidden_probs_compiled
              THEN [m2 EXCEPT ![H1] =
                       MapHidden(LAMBDA x, idx : hidden_probs(x), b_rep_plus(m2[H1]))]
              ELSE m2
        fatal_a == nan_check_deep(m3[H1])
        m4 == IF ~fatal_a /\ P /\ S /\ hidden_unit = "BINARY"
              THEN [m3 EXCEPT ![H2] =
                       MapHidden(LAMBDA p, idx : bernoulli(p, Uniform(seed, idx)), m3[H1])]
              ELSE m3
    IN  [mem |-> m4, fatal |-> fatal_a \/ (S /\ nan_check_deep(m4[H2]))]

\* V_SAMPLE_PROBS: the sample of one visible unit from its probability.
visible_sample(p, seed, idx) ==
    CASE visible_unit = "BINARY" -> bernoulli(p, Uniform(seed, idx))
      [] visible_unit = "GAUSSIAN" -> normal_noise(p, Noise(seed, idx))
      [] OTHER -> p

\* activate_visible without the check of v_a.
activate_visible_unchecked(P, S, H2, V1, V2, mem, seed) ==
    LET m1 == [mem EXCEPT ![V1] = conv_4d_full(mem[H2], w)]
        m2 == IF P /\ visible_unit_assert
              THEN [m1 EXCEPT ![V1] =
                       MapVisible(LAMBDA x, idx : visible_probs(x), c_rep_plus(m1[V1]))]
              ELSE m1
        m3 == IF P /\ S /\ visible_unit_assert
              THEN [m2 EXCEPT ![V2] =
                       MapVisible(LAMBDA p, idx : visible_sample(p, seed, idx), m2[V1])]
              ELSE m2
    IN  [mem |-> m3, fatal |-> S /\ nan_check_deep(m3[V2])]

\* activate_visible with the bias added into the hidden input in place.
activate_visible_in_place(P, S, H2, V1, V2, mem, seed) ==
    LET m0 == [mem EXCEPT ![H2] = b_rep_plus(mem[H2])]
        m1 == [m0 EXCEPT ![V1] = conv_4d_full(m0[H2], w)]
        m2 == IF P /\ visible_unit_assert
              THEN [m1 EXCEPT ![V1] =
                       MapVisible(LAMBDA x, idx : visible_probs(x), c_rep_plus(m1[V1]))]
              ELSE m1
        fatal_a == nan_check_deep(m2[V1])
        m3 == IF ~fatal_a /\ P /\ S /\ visible_unit_assert
              THEN [m2 EXCEPT ![V2] =
                       MapVisible(LAMBDA p, idx : visible_sample(p, seed, idx), m2[V1])]
              ELSE m2
    IN  [mem |-> m3, fatal |-> fatal_a \/ (S /\ nan_check_deep(m3[V2]))]

\* activate_visible<P, S>(h_a, h_s, v_a, v_s) on the buffers named H2, V1, V2:
\* v_a is checked before the sample is drawn.
activate_visible(P, S, H2, V1, V2, mem, seed) ==
    LET m1 == [mem EXCEPT ![V1] = conv_4d_full(mem[H2], w)]
        m2 == IF P /\ visible_unit_assert
              THEN [m1 EXCEPT ![V1] =
                       MapVisible(LAMBDA x, idx : visible_probs(x), c_rep_plus(m1[V1]))]
              ELSE m1
        fatal_a == nan_check_deep(m2[V1])
        m3 == IF ~fatal_a /\ P /\ S /\ visible_unit_assert
              THEN [m2 EXCEPT ![V2] =
                       MapVisible(LAMBDA p, idx : visible_sample(p, seed, idx), m2[V1])]
              ELSE m2
    IN  [mem |-> m3, fatal |-> fatal_a \/ (S /\ nan_check_deep(m3[V2]))]

\* batch_activate_visible<P, S>(h_a, h_s, v_a, v_s): the same steps over a batch.
batch_activate_visible(P, S, H2, V1, V2, mem, seed) ==
    LET m1 == [mem EXCEPT ![V1] = conv_4d_full(mem[H2], w)]
        m2 == IF P /\ visible_unit_assert
              THEN [m1 EXCEPT ![V1] =
                       MapVisible(LAMBDA x, idx : visible_probs(x), c_rep_plus(m1[V1]))]
              ELSE m1
        fatal_a == nan_check_deep(m2[V1])
        m3 == IF ~fatal_a /\ P /\ S /\ visible_unit_assert
              THEN [m2 EXCEPT ![V2] =
                       MapVisible(LAMBDA p, idx : visible_sample(p, seed, idx), m2[V1])]
              ELSE m2
    IN  [mem |-> m3, fatal |-> fatal_a \/ (S /\ nan_check_deep(m3[V2]))]

\* The entry point asking for samples too, its one buffer still passed twice.
activate_hidden_entry_sampled(H, V, mem, seed) ==
    activate_hidden(TRUE, TRUE, H, H, V, mem, seed)

\* The public activation entry point activate_hidden(h_a, input): the
\* probabilities only, the output buffer passed as both h_a and h_s.
activate_hidden_entry(H, V, mem, seed) ==
    activate_hidden(TRUE, FALSE, H, H, V, mem, seed)

\* ----------------------------------------------------------------- energy
\* energy_impl with the hidden bias term added instead of subtracted.
energy_impl_bias_sign(v, h) ==
    LET tmp == conv_4d_valid_flipped(<<v>>, w)
        bh == SumTo([k \in 1..K |-> Mul(b[k], SumRHidden(h)[k])], K)
        hw == SumHidden([k \in 1..K |-> [i \in 1..NH1 |-> [j \in 1..NH2 |->
                  Mul(h[k][i][j], tmp[1][k][i][j])]]])
    IN  IF visible_unit = "BINARY" /\ hidden_unit = "BINARY"
        THEN LET cv == SumTo([ch \in 1..NC |-> Mul(c[ch], SumRVisible(v)[ch])], NC)
             IN  [value |-> Sub(Add(Neg(cv), bh), hw), path |-> "binary"]
        ELSE IF visible_unit = "GAUSSIAN" /\ hidden_unit = "BINARY"
        THEN LET q == SumVisible([ch \in 1..NC |-> [i \in 1..NV1 |-> [j \in 1..NV2 |->
                          Half(Mul(Sub(v[ch][i][j], c[ch]), Sub(v[ch][i][j], c[ch])))]]])
             IN  [value |-> Sub(Add(Neg(q), bh), hw), path |-> "gaussian"]
        ELSE [value |-> 0, path |-> "sentinel"]

\* energy_impl(v, h) of one visible and one hidden sample: the value and the
\* branch that gave it.
energy_impl(v, h) ==
    LET tmp == conv_4d_valid_flipped(<<v>>, w)
        bh == SumTo([k \in 1..K |-> Mul(b[k], SumRHidden(h)[k])], K)
        hw == SumHidden([k \in 1..K |-> [i \in 1..NH1 |-> [j \in 1..NH2 |->
                  Mul(h[k][i][j], tmp[1][k][i][j])]]])
    IN  IF visible_unit = "BINARY" /\ hidden_unit = "BINARY"
        THEN LET cv == SumTo([ch \in 1..NC |-> Mul(c[ch], SumRVisible(v)[ch])], NC)
             IN  [value |-> Sub(Sub(Neg(cv), bh), hw), path |-> "binary"]
        ELSE IF visible_unit = "GAUSSIAN" /\ hidden_unit = "BINARY"
        THEN LET q == SumVisible([ch \in 1..NC |-> [i \in 1..NV1 |-> [j \in 1..NV2 |->
                          Half(Mul(Sub(v[ch][i][j], c[ch]), Sub(v[ch][i][j], c[ch])))]]])
             IN  [value |-> Sub(Sub(Neg(q), bh), hw), path |-> "gaussian"]
        ELSE [value |-> 0, path |-> "sentinel"]

\* free_energy_impl(v) of one visible sample.
free_energy_impl(v) ==
    LET tmp == conv_4d_valid_flipped(<<v>>, w)
        x == b_rep_plus(tmp)
        sp == SumHidden([k \in 1..K |-> [i \in 1..NH1 |-> [j \in 1..NH2 |->
                  Softplus(x[1][k][i][j])]]])
    IN  IF visible_unit = "BINARY" /\ hidden_unit = "BINARY"
        THEN LET cv == SumTo([ch \in 1..NC |-> Mul(c[ch], SumRVisible(v)[ch])], NC)
             IN  [value |-> Sub(Neg(cv), sp), path |-> "binary"]
        ELSE IF visible_unit = "GAUSSIAN" /\ hidden_unit = "BINARY"
        THEN LET q == SumVisible([ch \in 1..NC |-> [i \in 1..NV1 |-> [j \in 1..NV2 |->
                          Half(Mul(Sub(v[ch][i][j], c[ch]), Sub(v[ch][i][j], c[ch])))]]])
             IN  [value |-> Sub(Neg(q), sp), path |-> "gaussian"]
        ELSE [value |-> 0, path |-> "sentinel"]

\* ------------------------------------------------------------------ calls
\* A call that compiled: its buffers when it ends, and how it ended.
Ran(r) ==
    /\ SetBuffers(r.mem)
    /\ pc' = IF r.fatal THEN "aborted" ELSE "returned"

\* A call a static_assert refuses: nothing runs.
Refused ==
    /\ pc' = "rejected"
    /\ UNCHANGED <<v1, h1_a, h1_s, v2_a, v2_s>>

Request(op, P, S, seed, compiled) ==
    [op |-> op, P |-> P, S |-> S, draw |-> IF compiled /\ S THEN seed ELSE -1]

Single(t) == DOMAIN t = 1..1

ActivateHidden(P, S, seed) ==
    /\ pc = "visible_set"
    /\ Single(v1)
    /\ LET compiled == hidden_unit_assert /\ probs_assert(P)
       IN  /\ IF compiled
              THEN Ran(activate_hidden(P, S, "h1_a", "h1_s", "v1", Buffers, seed))
              ELSE Refused
           /\ call' = Request("activate_hidden", P, S, seed, compiled)
    /\ UNCHANGED <<others, params, bak, energy>>

ActivateHiddenEntry(seed) ==
    /\ pc = "visible_set"
    /\ Single(v1)
    /\ IF hidden_unit_assert
       THEN Ran(activate_hidden_entry("h1_a", "v1", Buffers, seed))
       ELSE Refused
    /\ call' = Request("activate_hidden_entry", TRUE, FALSE, seed, hidden_unit_assert)
    /\ UNCHANGED <<others, params, bak, energy>>

BatchActivateHidden(P, S, seed) ==
    /\ pc = "visible_set"
    /\ ~Single(v1)
    /\ LET compiled == hidden_unit_assert /\ probs_assert(P)
       IN  /\ IF compiled
              THEN Ran(batch_activate_hidden(P, S, "h1_a", "h1_s", "v1", Buffers, seed))
              ELSE Refused
           /\ call' = Request("batch_activate_hidden", P, S, seed, compiled)
    /\ UNCHANGED <<others, params, bak, energy>>

ActivateVisible(P, S, seed) ==
    /\ pc = "hidden_set"
    /\ Single(h1_s)
    /\ LET compiled == visible_unit_assert /\ probs_assert(P)
       IN  /\ IF compiled
              THEN Ran(activate_visible(P, S, "h1_s", "v2_a", "v2_s", Buffers, seed))
              ELSE Refused
           /\ call' = Request("activate_visible", P, S, seed, compiled)
    /\ UNCHANGED <<others, params, bak, energy>>

BatchActivateVisible(P, S, seed) ==
    /\ pc = "hidden_set"
    /\ ~Single(h1_s)
    /\ LET compiled == visible_unit_assert /\ probs_assert(P)
       IN  /\ IF compiled
              THEN Ran(batch_activate_visible(P, S, "h1_s", "v2_a", "v2_s", Buffers, seed))
              ELSE Refused
           /\ call' = Request("batch_activate_visible", P, S, seed, compiled)
    /\ UNCHANGED <<others, params, bak, energy>>

Energy ==
    /\ pc = "pair_set"
    /\ energy' = energy_impl(v1[1], h1_a[1])
    /\ call' = Request("energy", TRUE, TRUE, 0, FALSE)
    /\ pc' = "returned"
    /\ UNCHANGED <<others, params, bak, v1, h1_a, h1_s, v2_a, v2_s>>

FreeEnergy ==
    /\ pc = "visible_set"
    /\ Single(v1)
    /\ energy' = free_energy_impl(v1[1])
    /\ call' = Request("free_energy", TRUE, TRUE, 0, FALSE)
    /\ pc' = "returned"
    /\ UNCHANGED <<others, params, bak, v1, h1_a, h1_s, v2_a, v2_s>>

Next ==
    \/ \E v \in Batches(1, VisibleSample(InputVals)) : LoadVisible(1, v)
    \/ \E v \in Batches(BatchSize, VisibleDataset) : LoadVisible(BatchSize, v)
    \/ \E h \in Batches(1, HiddenSample(InputVals)) : LoadHidden(1, h)
    \/ \E h \in Batches(BatchSize, HiddenDataset) : LoadHidden(BatchSize, h)
    \/ \E v \in Batches(1, VisibleSample(InputVals)), h \in Batches(1, HiddenSample(InputVals)) :
          LoadPair(v, h)
    \/ \E P \in BOOLEAN, S \in BOOLEAN, seed \in Seeds : ActivateHidden(P, S, seed)
    \/ \E seed \in Seeds : ActivateHiddenEntry(seed)
    \/ \E P \in BOOLEAN, S \in BOOLEAN, seed \in Seeds : BatchActivateHidden(P, S, seed)
    \/ \E P \in BOOLEAN, S \in BOOLEAN, seed \in Seeds : ActivateVisible(P, S, seed)
    \/ \E P \in BOOLEAN, S \in BOOLEAN, seed \in Seeds : BatchActivateVisible(P, S, seed)
    \/ Energy
    \/ FreeEnergy

Spec == Init /\ [][Next]_vars

\* ---------------------------------------------------------------- dyn_rbm
\* The variables of the convolutional layer.
layer == <<visible_unit, hidden_unit, w, b, c, bak, v1, h1_a, h1_s, v2_a, v2_s, energy, call, pc>>

\* A convolutional layer nobody calls: BINARY kinds, unit weights, empty buffers.
IdleLayer ==
    /\ visible_unit = "BINARY"
    /\ hidden_unit = "BINARY"
    /\ w = [k \in 1..K |-> [ch \in 1..NC |-> [m \in 1..NW1 |-> [n \in 1..NW2 |-> One]]]]
    /\ b = [k \in 1..K |-> One]
    /\ c = [ch \in 1..NC |-> One]
    /\ bak = <<>>
    /\ v1 = ZeroVisible(1)
    /\ h1_a = ZeroHidden(1)
    /\ h1_s = ZeroHidden(1)
    /\ v2_a = ZeroVisible(1)
    /\ v2_s = ZeroVisible(1)
    /\ energy = NoEnergy
    /\ call = NoCall
    /\ pc = "constructed"

\* The largest dimension handed to a dyn_rbm.
MaxDim == 2

\* The dimensions handed to the sizing constructor and to init_layer.
DynDims == 1..MaxDim

\* The values an uninitialised size_t member may be read as.
Indeterminate == 0..MaxDim

\* etl::normal_generator<weight>() * 0.1: the values a weight is drawn from.
GeneratedWeights == <<0 - (One \div 10), 0, One \div 10>>

\* The states the generator's engine may be in when a matrix is filled.
GeneratorStates == 0..80

\* The element the generator, its engine in state g, gives position i.
GeneratedAt(g, i) ==
    GeneratedWeights[((g \div (CASE i % 4 = 1 -> 1 [] i % 4 = 2 -> 3 [] i % 4 = 3 -> 9
                                      [] OTHER -> 27)) % 3) + 1]

\* The contents w = etl::normal_generator<weight>() * 0.1 may leave in a
\* matrix of nv x nh elements.
Generated(nv, nh) == { [i \in 1..(nv * nh) |-> GeneratedAt(g, i)] : g \in GeneratorStates }

\* dyn_rbm(): no member initialiser for w, b, c and the buffers (empty), none
\* for num_visible and num_hidden (indeterminate values nv, nh).
dyn_rbm_default(nv, nh) ==
    /\ dyn.made = "no"
    /\ dyn' = [NoDyn EXCEPT !.made = "default", !.num_visible = nv, !.num_hidden = nh]
    /\ UNCHANGED <<layer, trainer>>

\* The members init_layer and the sizing constructor set, from the dimensions.
Sized(d, nv, nh, g) ==
    [d EXCEPT !.num_visible = nv, !.num_hidden = nh,
              !.w = dyn_matrix(nv, nh, g),
              !.b = dyn_vector(nh), !.c = dyn_vector(nv),
              !.v1 = dyn_vector(nv),
              !.h1_a = dyn_vector(nh), !.h1_s = dyn_vector(nh),
              !.v2_a = dyn_vector(nv), !.v2_s = dyn_vector(nv),
              !.h2_a = dyn_vector(nh), !.h2_s = dyn_vector(nh)]

\* dyn_rbm(num_visible, num_hidden)
dyn_rbm_sized(nv, nh, g) ==
    /\ dyn.made = "no"
    /\ dyn' = [Sized(NoDyn, nv, nh, g) EXCEPT !.made = "sized"]
    /\ UNCHANGED <<layer, trainer>>

\* init_layer(nv, nh): the backup pointers and batch_size are left alone.
init_layer(nv, nh, g) ==
    /\ dyn.made # "no"
    /\ dyn' = [Sized(dyn, nv, nh, g) EXCEPT !.made = "initialised"]
    /\ UNCHANGED <<layer, trainer>>

input_size == dyn.num_visible

output_size == dyn.num_hidden

parameters == dyn.num_visible * dyn.num_hidden

DynInit == IdleLayer /\ dyn = NoDyn /\ trainer = NoTrainer

DynNext ==
    \/ \E nv \in Indeterminate, nh \in Indeterminate : dyn_rbm_default(nv, nh)
    \/ \E nv \in DynDims, nh \in DynDims : \E g \in Generated(nv, nh) : dyn_rbm_sized(nv, nh, g)
    \/ \E nv \in DynDims, nh \in DynDims : \E g \in Generated(nv, nh) : init_layer(nv, nh, g)

DynSpec == DynInit /\ [][DynNext]_vars

\* ---------------------------------------------------------------- trainer
\* The contrastive-divergence trainer on one batch in parallel batch mode: a
\* pool of workers takes the samples of a batch one by one, each running the positive phase
\* and one Gibbs step on its own buffers and adding the sample's statistics to
\* its own accumulator; the accumulators are merged once every sample is done,
\* and the weight update rule then changes W, b, c.

\* The workers of the pool.
MaxWorkers == 2

Workers == 1..MaxWorkers

\* The learning rate, 0.1.
LearningRate == 100

ZeroGradient ==
    [dw |-> [k \in 1..K |-> [ch \in 1..NC |-> [m \in 1..NW1 |-> [n \in 1..NW2 |-> 0]]]],
     db |-> [k \in 1..K |-> 0],
     dc |-> [ch \in 1..NC |-> 0]]

\* <v h>: the statistics of a visible sample v and a hidden sample h.
Statistics(v, h) ==
    [dw |-> [k \in 1..K |-> [ch \in 1..NC |-> [m \in 1..NW1 |-> [n \in 1..NW2 |->
                SumTo([i \in 1..NH1 |->
                    SumTo([j \in 1..NH2 |->
                        Mul(v[ch][i + m - 1][j + n - 1], h[k][i][j])], NH2)], NH1)]]]],
     db |-> SumRHidden(h),
     dc |-> SumRVisible(v)]

\* x op y, element by element, over gradients.
GradientSum(x, y) ==
    [dw |-> [k \in 1..K |-> [ch \in 1..NC |-> [m \in 1..NW1 |-> [n \in 1..NW2 |->
                Add(x.dw[k][ch][m][n], y.dw[k][ch][m][n])]]]],
     db |-> [k \in 1..K |-> Add(x.db[k], y.db[k])],
     dc |-> [ch \in 1..NC |-> Add(x.dc[ch], y.dc[ch])]]

GradientDifference(x, y) ==
    [dw |-> [k \in 1..K |-> [ch \in 1..NC |-> [m \in 1..NW1 |-> [n \in 1..NW2 |->
                Sub(x.dw[k][ch][m][n], y.dw[k][ch][m][n])]]]],
     db |-> [k \in 1..K |-> Sub(x.db[k], y.db[k])],
     dc |-> [ch \in 1..NC |-> Sub(x.dc[ch], y.dc[ch])]]

\* The gradient x averaged over n samples.
GradientMean(x, n) ==
    [dw |-> [k \in 1..K |-> [ch \in 1..NC |-> [m \in 1..NW1 |-> [n2 \in 1..NW2 |->
                x.dw[k][ch][m][n2] \div n]]]],
     db |-> [k \in 1..K |-> x.db[k] \div n],
     dc |-> [ch \in 1..NC |-> x.dc[ch] \div n]]

\* The sum of the accumulators acc[1..n].
RECURSIVE Merge(_, _)
Merge(acc, n) == IF n = 0 THEN ZeroGradient ELSE GradientSum(Merge(acc, n - 1), acc[n])

\* A worker between samples: empty chain buffers, the accumulator acc.
IdleWorker(acc) ==
    [pc |-> "idle", acc |-> acc,
     v1 |-> ZeroVisible(1), h1_a |-> ZeroHidden(1), h1_s |-> ZeroHidden(1),
     v2_a |-> ZeroVisible(1), v2_s |-> ZeroVisible(1),
     h2_a |-> ZeroHidden(1), h2_s |-> ZeroHidden(1)]

\* What a worker's call can reach: the worker's chain buffers and the members
\* of the layer the call runs on.
Workspace(wk) ==
    [v1 |-> wk.v1, h1_a |-> wk.h1_a, h1_s |-> wk.h1_s, v2_a |-> wk.v2_a, v2_s |-> wk.v2_s,
     h2_a |-> wk.h2_a, h2_s |-> wk.h2_s, w |-> w, b |-> b, c |-> c]

\* The worker and the layer after a call that left the workspace as m: the
\* worker moves on to the step next, or the session fails on a NaN check.
AfterCall(i, r, next) ==
    /\ trainer' = [trainer EXCEPT
           !.phase = IF r.fatal THEN "failed" ELSE @,
           !.workers[i] = [pc |-> IF r.fatal THEN "failed" ELSE next, acc |-> @.acc,
                           v1 |-> r.mem.v1, h1_a |-> r.mem.h1_a, h1_s |-> r.mem.h1_s,
                           v2_a |-> r.mem.v2_a, v2_s |-> r.mem.v2_s,
                           h2_a |-> r.mem.h2_a, h2_s |-> r.mem.h2_s]]
    /\ w' = r.mem.w
    /\ b' = r.mem.b
    /\ c' = r.mem.c

\* What the trainer's steps leave alone besides the parameters.
untrained == <<visible_unit, hidden_unit, bak, v1, h1_a, h1_s, v2_a, v2_s, energy, call, pc, dyn>>

\* The batch driver hands the next batch to the pool.
StartBatch(batch) ==
    /\ trainer.phase = "idle"
    /\ trainer' = [trainer EXCEPT !.phase = "parallel", !.batch = batch, !.next = 1,
                                  !.workers = [i \in Workers |-> IdleWorker(ZeroGradient)]]
    /\ UNCHANGED <<untrained, w, b, c>>

\* A free worker takes the next sample of the batch.
TakeSample(i) ==
    /\ trainer.phase = "parallel"
    /\ trainer.workers[i].pc = "idle"
    /\ trainer.next <= Len(trainer.batch)
    /\ trainer' = [trainer EXCEPT
           !.next = @ + 1,
           !.workers[i] = [IdleWorker(@.acc) EXCEPT !.pc = "positive",
                                                    !.v1 = <<trainer.batch[trainer.next]>>]]
    /\ UNCHANGED <<untrained, w, b, c>>

\* POSITIVE_PHASE: the hidden units activated and sampled from the sample.
PositivePhase(i, seed) ==
    /\ trainer.phase = "parallel"
    /\ trainer.workers[i].pc = "positive"
    /\ AfterCall(i, activate_hidden(TRUE, TRUE, "h1_a", "h1_s", "v1",
                                    Workspace(trainer.workers[i]), seed), "reconstruct")
    /\ UNCHANGED untrained

\* GIBBS_CHAIN, first half: the visible units reconstructed from the hidden sample.
Reconstruct(i) ==
    /\ trainer.phase = "parallel"
    /\ trainer.workers[i].pc = "reconstruct"
    /\ AfterCall(i, activate_visible(TRUE, FALSE, "h1_s", "v2_a", "v2_s",
                                     Workspace(trainer.workers[i]), 0), "reactivate")
    /\ UNCHANGED untrained

\* GIBBS_CHAIN, second half: the hidden units reactivated from the reconstruction.
Reactivate(i) ==
    /\ trainer.phase = "parallel"
    /\ trainer.workers[i].pc = "reactivate"
    /\ AfterCall(i, activate_hidden(TRUE, FALSE, "h2_a", "h2_s", "v2_a",
                                    Workspace(trainer.workers[i]), 0), "accumulate")
    /\ UNCHANGED untrained

\* GRADIENT_ACCUM: positive minus negative statistics into the worker's own
\* accumulator.
Accumulate(i) ==
    /\ trainer.phase = "parallel"
    /\ trainer.workers[i].pc = "accumulate"
    /\ LET wk == trainer.workers[i]
           g == GradientDifference(Statistics(wk.v1[1], wk.h1_a[1]),
                                   Statistics(wk.v2_a[1], wk.h2_a[1]))
       IN  trainer' = [trainer EXCEPT !.workers[i] = IdleWorker(GradientSum(wk.acc, g))]
    /\ UNCHANGED <<untrained, w, b, c>>

\* The reduction after the parallel region: every sample taken, every worker
\* back, the accumulators merged and averaged over the batch.
Reduce ==
    /\ trainer.phase = "parallel"
    /\ trainer.next > Len(trainer.batch)
    /\ \A i \in Workers : trainer.workers[i].pc = "idle"
    /\ trainer' = [trainer EXCEPT
           !.phase = "reduced",
           !.gradient = GradientMean(Merge([i \in Workers |-> trainer.workers[i].acc],
                                           MaxWorkers), Len(trainer.batch))]
    /\ UNCHANGED <<untrained, w, b, c>>

\* The weight update rule, W += lr dW, b += lr db, c += lr dc.
WeightUpdate ==
    /\ trainer.phase = "reduced"
    /\ w' = [k \in 1..K |-> [ch \in 1..NC |-> [m \in 1..NW1 |-> [n \in 1..NW2 |->
                Add(w[k][ch][m][n], Mul(LearningRate, trainer.gradient.dw[k][ch][m][n]))]]]]
    /\ b' = [k \in 1..K |-> Add(b[k], Mul(LearningRate, trainer.gradient.db[k]))]
    /\ c' = [ch \in 1..NC |-> Add(c[ch], Mul(LearningRate, trainer.gradient.dc[ch]))]
    /\ trainer' = [trainer EXCEPT !.phase = "updated"]
    /\ UNCHANGED untrained

\* A training session about to start on a layer of supported kinds and finite
\* weights.
TrainInit ==
    /\ visible_unit \in {"BINARY", "GAUSSIAN"}
    /\ hidden_unit \in {"BINARY", "RELU"}
    /\ w \in [1..K -> [1..NC -> [1..NW1 -> [1..NW2 -> WeightVals]]]]
    /\ b \in [1..K -> WeightVals]
    /\ c = [ch \in 1..NC |-> 0 - One]
    /\ bak = <<>>
    /\ v1 = ZeroVisible(1)
    /\ h1_a = ZeroHidden(1)
    /\ h1_s = ZeroHidden(1)
    /\ v2_a = ZeroVisible(1)
    /\ v2_s = ZeroVisible(1)
    /\ energy = NoEnergy
    /\ call = NoCall
    /\ pc = "constructed"
    /\ dyn = NoDyn
    /\ trainer = [phase |-> "idle", batch |-> <<>>, next |-> 1,
                  workers |-> [i \in Workers |-> IdleWorker(ZeroGradient)],
                  gradient |-> ZeroGradient]

TrainNext ==
    \/ \E batch \in Batches(BatchSize, VisibleDataset) : StartBatch(batch)
    \/ \E i \in Workers : TakeSample(i)
    \/ \E i \in Workers, seed \in Seeds : PositivePhase(i, seed)
    \/ \E i \in Workers : Reconstruct(i)
    \/ \E i \in Workers : Reactivate(i)
    \/ \E i \in Workers : Accumulate(i)
    \/ Reduce
    \/ WeightUpdate

TrainSpec == TrainInit /\ [][TrainNext]_vars

\* ------------------------------------------------------------ properties
\* What the properties compare the layer's results with, computed from the
\* formulas themselves in plain arithmetic over finite values.
\* The sum of the values of a function of finite domain.
RECURSIVE Sigma(_)
Sigma(f) ==
    IF DOMAIN f = {} THEN 0
    ELSE LET x == CHOOSE y \in DOMAIN f : TRUE
         IN  f[x] + Sigma([y \in DOMAIN f \ {x} |-> f[y]])

FiniteWeights ==
    \A k \in 1..K, ch \in 1..NC, m \in 1..NW1, n \in 1..NW2 : w[k][ch][m][n] # NaN

VisiblePlaces == (1..NC) \X (1..NV1) \X (1..NV2)

HiddenPlaces == (1..K) \X (1..NH1) \X (1..NH2)

KernelPlaces == (1..NC) \X (1..NW1) \X (1..NW2)

\* (W * v)[k][i][j]: the valid convolution of v with the flipped kernel k.
ValidFlipped(v, k, i, j) ==
    Sigma([q \in KernelPlaces |->
              (v[q[1]][i + q[2] - 1][j + q[3] - 1] * w[k][q[1]][q[2]][q[3]]) \div One])

\* sum_ch c_ch * (sum of channel ch of v)
VisibleBiasTerm(v) ==
    Sigma([ch \in 1..NC |->
        (c[ch] * Sigma([q \in (1..NV1) \X (1..NV2) |-> v[ch][q[1]][q[2]]])) \div One])

\* sum_k b_k * (sum of map k of h)
HiddenBiasTerm(h) ==
    Sigma([k \in 1..K |->
        (b[k] * Sigma([q \in (1..NH1) \X (1..NH2) |-> h[k][q[1]][q[2]]])) \div One])

\* sum h . (W * v)
InteractionTerm(v, h) ==
    Sigma([q \in HiddenPlaces |->
        (h[q[1]][q[2]][q[3]] * ValidFlipped(v, q[1], q[2], q[3])) \div One])

\* sum (v - c)^2 / 2
QuadraticTerm(v) ==
    Sigma([q \in VisiblePlaces |->
        (((v[q[1]][q[2]][q[3]] - c[q[1]]) * (v[q[1]][q[2]][q[3]] - c[q[1]])) \div One) \div 2])

EnergyCalled == call.op = "energy" /\ pc = "returned"

\* C1: with GAUSSIAN visible and BINARY hidden units, energy(v, h) is
\* sum (v-c)^2/2 - sum_k b_k sum h_k - sum h.(W*v).
C1_GaussianEnergy ==
    (EnergyCalled /\ visible_unit = "GAUSSIAN" /\ hidden_unit = "BINARY" /\ FiniteWeights)
        => energy.value = QuadraticTerm(v1[1]) - HiddenBiasTerm(h1_a[1])
                              - InteractionTerm(v1[1], h1_a[1])

\* C2: with BINARY visible and BINARY hidden units, energy(v, h) is
\* - sum_ch c_ch sum v_ch - sum_k b_k sum h_k - sum h.(W*v).
C2_BinaryEnergy ==
    (EnergyCalled /\ visible_unit = "BINARY" /\ hidden_unit = "BINARY" /\ FiniteWeights)
        => energy.value = 0 - VisibleBiasTerm(v1[1]) - HiddenBiasTerm(h1_a[1])
                              - InteractionTerm(v1[1], h1_a[1])

\* C2 witness: a binary/binary energy to which all three terms contribute.
C2_Witness ==
    /\ EnergyCalled /\ visible_unit = "BINARY" /\ hidden_unit = "BINARY" /\ FiniteWeights
    /\ VisibleBiasTerm(v1[1]) # 0
    /\ HiddenBiasTerm(h1_a[1]) # 0
    /\ InteractionTerm(v1[1], h1_a[1]) # 0
    /\ energy.value < 0

\* C1 (the code's value): the quadratic term enters the energy negated.
C1_CodeGaussianEnergy ==
    (EnergyCalled /\ visible_unit = "GAUSSIAN" /\ hidden_unit = "BINARY" /\ FiniteWeights)
        => energy.value = 0 - QuadraticTerm(v1[1]) - HiddenBiasTerm(h1_a[1])
                              - InteractionTerm(v1[1], h1_a[1])

EnergyOps == {"energy", "free_energy"}

HiddenOps == {"activate_hidden", "activate_hidden_entry", "batch_activate_hidden"}

VisibleOps == {"activate_visible", "batch_activate_visible"}

ActivationOps == HiddenOps \cup VisibleOps

\* The call was compiled and ran, to its end or to a fatal check.
CallRan == pc \in {"returned", "aborted"}

SupportedVisible == visible_unit \in {"BINARY", "GAUSSIAN"}

SupportedHidden == hidden_unit \in {"BINARY", "RELU", "RELU6", "RELU1"}

\* C3: energy and free energy return the zero sentinel for every pair whose
\* hidden kind is not BINARY, and never take the sentinel branch for a pair
\* whose hidden kind is BINARY.
C3_SentinelByHiddenKind ==
    (call.op \in EnergyOps /\ pc = "returned" /\ FiniteWeights)
        => /\ hidden_unit # "BINARY" => (energy.value = 0 /\ energy.path = "sentinel")
           /\ hidden_unit = "BINARY" => energy.path # "sentinel"

\* C3 (the code's branches): the sentinel is returned exactly for the pairs
\* other than BINARY or GAUSSIAN visible with BINARY hidden.
C3_CodeSentinel ==
    (call.op \in EnergyOps /\ pc = "returned")
        => (energy.path = "sentinel" <=> ~(SupportedVisible /\ hidden_unit = "BINARY"))

\* C4: no activation operation runs on a layer whose (visible, hidden) pair is
\* outside {BINARY, GAUSSIAN} x {BINARY, RELU, RELU6, RELU1}.
C4_UnsupportedPairRejected ==
    (call.op \in ActivationOps /\ pc = "returned") => (SupportedVisible /\ SupportedHidden)

\* C4 (the code's checks): a hidden activation that ran had a supported hidden
\* kind, a visible activation that ran had a supported visible kind.
C4_CodeOwnSideChecked ==
    /\ (call.op \in HiddenOps /\ CallRan) => SupportedHidden
    /\ (call.op \in VisibleOps /\ CallRan) => SupportedVisible

\* C5: a request with P = false is refused by each of the four activation
\* operations before anything is written to a probability or sample buffer.
C5_SamplingWithoutProbsRefused ==
    [][(call.op = "none" /\ call'.op \in ActivationOps /\ ~call'.P)
          => (pc' = "rejected" /\ UNCHANGED <<v1, h1_a, h1_s, v2_a, v2_s>>)]_vars

\* C5 witness: S = true, P = false refused on a layer of supported kinds,
\* whose buffers hold what the caller put there.
C5_Witness ==
    /\ call.op = "batch_activate_hidden" /\ call.S /\ ~call.P
    /\ SupportedVisible /\ SupportedHidden
    /\ pc = "rejected"
    /\ v1 # ZeroVisible(BatchSize)
    /\ FiniteWeights

\* The hidden pre-activation x of unit (k, i, j) of sample s: the valid flipped
\* convolution of the visible input with W plus the hidden bias.
PreActivation(s, k, i, j) == b[k] + ValidFlipped(v1[s], k, i, j)

\* The hidden units of the call's batch, as (sample, kernel, row, column).
HiddenUnits == (DOMAIN h1_a) \X (1..K) \X (1..NH1) \X (1..NH2)

HiddenCallReturned == call.op \in {"activate_hidden", "batch_activate_hidden"} /\ pc = "returned"

\* C6: for BINARY hidden units and either supported visible kind,
\* a = sigmoid(x) and s = bernoulli(a), in activate_hidden and batch_activate_hidden.
C6_SigmoidOfPreActivation ==
    (HiddenCallReturned /\ hidden_unit = "BINARY" /\ SupportedVisible)
        => \A q \in HiddenUnits :
              /\ h1_a[q[1]][q[2]][q[3]][q[4]] = Sigmoid(PreActivation(q[1], q[2], q[3], q[4]))
              /\ call.S => h1_s[q[1]][q[2]][q[3]][q[4]] =
                              bernoulli(h1_a[q[1]][q[2]][q[3]][q[4]],
                                        Uniform(call.draw, HIdx(q[1], q[2], q[3], q[4])))

\* C6 as amended: a = sigmoid(x) for BINARY visible units and
\* a = sigmoid(100 x) for GAUSSIAN visible units; s = bernoulli(a) for both.
C6_SigmoidOfScaledPreActivation ==
    (HiddenCallReturned /\ hidden_unit = "BINARY" /\ SupportedVisible)
        => \A q \in HiddenUnits :
              /\ h1_a[q[1]][q[2]][q[3]][q[4]] =
                    Sigmoid((IF visible_unit = "GAUSSIAN" THEN GaussianPrecision ELSE 1)
                                * PreActivation(q[1], q[2], q[3], q[4]))
              /\ call.S => h1_s[q[1]][q[2]][q[3]][q[4]] =
                              bernoulli(h1_a[q[1]][q[2]][q[3]][q[4]],
                                        Uniform(call.draw, HIdx(q[1], q[2], q[3], q[4])))

\* C6 witness: a batch of GAUSSIAN visible inputs whose pre-activations 1 and -1
\* give probabilities other than sigmoid(1) and sigmoid(-1), and a sample of each value.
C6_Witness ==
    /\ call.op = "batch_activate_hidden" /\ pc = "returned" /\ call.S
    /\ hidden_unit = "BINARY" /\ visible_unit = "GAUSSIAN"
    /\ \E q \in HiddenUnits :
          /\ PreActivation(q[1], q[2], q[3], q[4]) = One
          /\ h1_a[q[1]][q[2]][q[3]][q[4]] = One
          /\ h1_s[q[1]][q[2]][q[3]][q[4]] = One
    /\ \E q \in HiddenUnits :
          /\ PreActivation(q[1], q[2], q[3], q[4]) = 0 - One
          /\ h1_a[q[1]][q[2]][q[3]][q[4]] = 1
          /\ h1_s[q[1]][q[2]][q[3]][q[4]] = 0

\* C7: after a hidden activation over finite pre-activations, h_a lies in
\* [0, 1] for BINARY, is >= 0 for RELU, lies in [0, 6] for RELU6 and in [0, 1]
\* for RELU1, and for RELU6 and RELU1 a drawn h_s lies in [0, bound].
C7_HiddenRanges ==
    (call.op \in HiddenOps /\ pc = "returned")
        => \A q \in HiddenUnits :
              LET a == h1_a[q[1]][q[2]][q[3]][q[4]]
                  s == h1_s[q[1]][q[2]][q[3]][q[4]]
              IN  /\ hidden_unit = "BINARY" => (0 <= a /\ a <= One)
                  /\ hidden_unit = "RELU" => 0 <= a
                  /\ hidden_unit = "RELU6" => (0 <= a /\ a <= 6 * One /\ 0 <= s /\ s <= 6 * One)
                  /\ hidden_unit = "RELU1" => (0 <= a /\ a <= One /\ 0 <= s /\ s <= One)

\* C7 (on the supported pairs): the same ranges, for the layers whose visible
\* kind is BINARY or GAUSSIAN.
C7_CodeHiddenRanges == SupportedVisible => C7_HiddenRanges

\* Some element of a batch of samples is not finite.
NonFinite(t) ==
    \E s \in DOMAIN t : \E a \in DOMAIN t[s] : \E i \in DOMAIN t[s][a] :
        \E j \in DOMAIN t[s][a][i] : t[s][a][i][j] = NaN

\* C8: an activation operation ends in the fatal error exactly when the
\* probabilities it computed, or the samples it drew (S = true), hold a
\* non-finite value; it never returns normally with one.
C8_NonFiniteOutputIsFatal ==
    (call.op \in ActivationOps /\ CallRan)
        => LET probs == IF call.op \in HiddenOps THEN h1_a ELSE v2_a
               samples == IF call.op \in HiddenOps THEN h1_s ELSE v2_s
           IN  pc = "aborted" <=> (NonFinite(probs) \/ (call.S /\ NonFinite(samples)))

\* C8 witness: a visible activation without sampling ended by the check of v_a,
\* and one with non-finite weights that met none of them returned normally.
C8_Witness ==
    /\ call.op = "activate_visible" /\ ~call.S
    /\ pc = "aborted"
    /\ NonFinite(v2_a)
    /\ ~FiniteWeights

\* C9: the activation operations change neither W, b, c, the backup snapshot
\* nor their inputs, and write only h_a/h_s (hidden) or v_a/v_s (visible);
\* energy and free energy change no parameter and no buffer.
C9_Frame ==
    [][(call.op = "none" /\ call'.op # "none")
          => /\ UNCHANGED <<w, b, c, visible_unit, hidden_unit, bak>>
             /\ call'.op \in HiddenOps => UNCHANGED <<v1, v2_a, v2_s>>
             /\ call'.op \in VisibleOps => UNCHANGED <<h1_a, h1_s, v1>>
             /\ call'.op \in EnergyOps => UNCHANGED <<v1, h1_a, h1_s, v2_a, v2_s>>]_vars

\* C9 witness: a visible activation that wrote both of its outputs from a
\* non-zero hidden input, on a layer that holds a backup snapshot.
C9_Witness ==
    /\ call.op = "activate_visible" /\ pc = "returned" /\ call.S
    /\ bak # <<>>
    /\ h1_s # ZeroHidden(1)
    /\ v2_a # ZeroVisible(1)
    /\ v2_s # ZeroVisible(1)

\* C10: activate_hidden(output, input) leaves in its output the h_a that
\* activate_hidden<true, true> computes from the same input, W and b, whatever
\* the random engine draws, and writes no sample.
C10_EntryGivesProbabilities ==
    (call.op = "activate_hidden_entry" /\ CallRan)
        => /\ \A seed \in Seeds :
                h1_a = activate_hidden(TRUE, TRUE, "h1_a", "h1_s", "v1", Buffers, seed).mem.h1_a
           /\ h1_s = ZeroHidden(1)

\* C10 witness: the entry point returned probabilities strictly between 0 and 1,
\* which no sample is.
C10_Witness ==
    /\ call.op = "activate_hidden_entry" /\ pc = "returned"
    /\ hidden_unit = "BINARY" /\ visible_unit = "BINARY"
    /\ \E q \in HiddenUnits : h1_a[q[1]][q[2]][q[3]][q[4]] = Sigmoid(One)
    /\ \E q \in HiddenUnits : h1_a[q[1]][q[2]][q[3]][q[4]] = Sigmoid(0)

\* The value x clamped to [0, bound].
Clamp(x, bound) == IF x < 0 THEN 0 ELSE IF x > bound THEN bound ELSE x

\* x with the noise n added, except at the two ends of [0, bound].
Ranged(x, bound, n) == IF x = 0 \/ x = bound THEN x ELSE x + n

SingleBuffers(v, h) ==
    [v1 |-> <<v>>, h1_a |-> <<h>>, h1_s |-> <<h>>,
     v2_a |-> ZeroVisible(1), v2_s |-> ZeroVisible(1)]

\* C14: slice i of the h_a of batch_activate_hidden is the h_a activate_hidden
\* gives on visible sample i, and slice i of the v_a of batch_activate_visible
\* is the v_a activate_visible gives on hidden sample i, with the same W, b, c,
\* whatever the random engine draws.
C14_BatchAgreesWithSingle ==
    /\ (call.op = "batch_activate_hidden" /\ CallRan)
          => \A i \in DOMAIN v1 : \A seed \in Seeds :
                activate_hidden(call.P, call.S, "h1_a", "h1_s", "v1",
                                SingleBuffers(v1[i], ZeroHidden(1)[1]), seed).mem.h1_a
                    = <<h1_a[i]>>
    /\ (call.op = "batch_activate_visible" /\ CallRan)
          => \A i \in DOMAIN h1_s : \A seed \in Seeds :
                activate_visible(call.P, call.S, "h1_s", "v2_a", "v2_s",
                                 SingleBuffers(ZeroVisible(1)[1], h1_s[i]), seed).mem.v2_a
                    = <<v2_a[i]>>

\* C14 witness: a batch of two different visible samples returned two different,
\* non-zero slices of h_a.
C14_Witness ==
    /\ call.op = "batch_activate_hidden" /\ pc = "returned"
    /\ v1[1] # v1[2]
    /\ h1_a[1] # h1_a[2]
    /\ h1_a[1] # ZeroHidden(1)[1]
    /\ h1_a[2] # ZeroHidden(1)[1]

\* The shapes of a dyn_rbm agree with its recorded dimensions.
ShapesAgree ==
    /\ dyn.w.rows = dyn.num_visible /\ dyn.w.cols = dyn.num_hidden
    /\ Len(dyn.w.data) = parameters
    /\ \A t \in {dyn.b, dyn.h1_a, dyn.h1_s, dyn.h2_a, dyn.h2_s} : Len(t) = dyn.num_hidden
    /\ \A t \in {dyn.c, dyn.v1, dyn.v2_a, dyn.v2_s} : Len(t) = dyn.num_visible
    /\ input_size = dyn.num_visible
    /\ output_size = dyn.num_hidden
    /\ parameters = dyn.num_visible * dyn.num_hidden
    /\ dyn.bak_w # <<>> => (dyn.bak_w[1].rows = dyn.w.rows /\ dyn.bak_w[1].cols = dyn.w.cols)
    /\ dyn.bak_b # <<>> => Len(dyn.bak_b[1]) = Len(dyn.b)
    /\ dyn.bak_c # <<>> => Len(dyn.bak_c[1]) = Len(dyn.c)

\* C15: in every state of a dyn_rbm made by either constructor and any number
\* of init_layer calls, w is num_visible x num_hidden, b and the hidden
\* buffers have length num_hidden, c and the visible buffers length
\* num_visible, the size accessors return the recorded dimensions, and a
\* backup snapshot, when present, has the shape of w, b, c.
C15_ShapesAgree == dyn.made # "no" => ShapesAgree

\* C15 (from the first sizing on): the same, for an object made by the sizing
\* constructor or on which init_layer was called at least once.
C15_CodeShapesOnceSized == dyn.made \in {"sized", "initialised"} => ShapesAgree

\* The workers in the middle of a sample's chain.
Busy == {i \in Workers : trainer.workers[i].pc \in {"positive", "reconstruct", "reactivate"}}

\* C11: in parallel batch mode no step taken while a worker is executing a
\* per-sample activation writes W, b or c, and a step that writes them is
\* taken only once every sample of the batch was taken, every worker has
\* finished and the gradients were reduced.
C11_ParametersReadOnlyInParallelPhase ==
    [][/\ Busy # {} => UNCHANGED <<w, b, c>>
       /\ <<w, b, c>>' # <<w, b, c>>
             => /\ trainer.phase = "reduced"
                /\ trainer.next > Len(trainer.batch)
                /\ \A i \in Workers : trainer.workers[i].pc = "idle"]_vars

\* C11 witness: the weight update changed W, b and c after a batch in which
\* both workers accumulated a non-zero gradient.
C11_Witness ==
    /\ trainer.phase = "updated"
    /\ \A i \in {1, 2} : trainer.workers[i].acc # ZeroGradient
    /\ trainer.gradient.dw # ZeroGradient.dw
    /\ trainer.gradient.db # ZeroGradient.db
    /\ trainer.gradient.dc # ZeroGradient.dc

====
